---- MODULE Spec2Model ----
(***************************************************************************)
(* Model of src/src/dataset.rs: the Dataset wrapper over the native        *)
(* LightGBM dataset handle (construction from a dense matrix, from a file, *)
(* from a data frame; row/feature count queries; weights; Drop).           *)
(***************************************************************************)
EXTENDS Integers, Sequences, FiniteSets, TLC

(* ------------------------------ bounds -------------------------------- *)

\* Largest in-range length drawn for a feature buffer or a weights slice.
MaxLen == 4
\* Largest in-range row count and label length drawn.
MaxRows == 2
\* Lengths of 2^31 + k, k \in 0..MaxBig, are drawn as out-of-range values.
MaxBig == 0
\* Number of constructor calls (from_mat, from_file) a behaviour may make.
MaxConstructions == 1
\* Longest file path drawn (in bytes).
MaxPathLen == 1
\* Largest row / feature count a loaded file may have.
MaxFileDim == 1
\* Data frame shapes drawn: up to MaxFrameRows rows and MaxFrameCols columns.
MaxFrameRows == 2
MaxFrameCols == 3

(* ----------------------- usize and i32 arithmetic --------------------- *)

\* i32::MAX, the largest value `try_into::<i32>` accepts.
I32_MAX == 2147483647

P30 == 2^30

\* A usize value hi * 2^31 + lo with 0 <= lo <= I32_MAX, so that lengths
\* beyond the i32 range are held exactly.
U(n) == [hi |-> 0, lo |-> n]
Big(n) == [hi |-> 1, lo |-> n]
Zero == U(0)

AddMod(a, b, n) == IF a >= n - b THEN a - (n - b) ELSE a + b
Carry(a, b, n) == IF a >= n - b THEN 1 ELSE 0

\* a % n on usize, n # 0.
USizeRem(a, n) ==
    IF n.hi = 0
    THEN IF a.hi = 0
         THEN U(a.lo % n.lo)
         ELSE LET r  == P30 % n.lo
                  r2 == AddMod(r, r, n.lo)
              IN  U(AddMod(r2, a.lo % n.lo, n.lo))
    ELSE IF a.hi = 0
         THEN a
         ELSE IF a.lo >= n.lo THEN U(a.lo - n.lo) ELSE a

\* a / n on usize, n # 0.
USizeDiv(a, n) ==
    IF n.hi = 0
    THEN IF a.hi = 0
         THEN U(a.lo \div n.lo)
         ELSE IF n.lo = 1
              THEN a
              ELSE LET r  == P30 % n.lo
                       r2 == AddMod(r, r, n.lo)
                   IN  U(2 * (P30 \div n.lo) + (a.lo \div n.lo)
                         + Carry(r, r, n.lo) + Carry(r2, a.lo % n.lo, n.lo))
    ELSE IF a.hi = 0
         THEN Zero
         ELSE IF a.lo >= n.lo THEN U(1) ELSE Zero

\* usize -> i32 (`try_into`): fails when the value exceeds i32::MAX.
TryIntoI32(u) ==
    IF u.hi = 0 /\ u.lo <= I32_MAX
    THEN [ok |-> TRUE, value |-> u.lo]
    ELSE [ok |-> FALSE, value |-> 0]

\* i32 -> usize (`try_into`): fails when the value is negative.
TryIntoUSize(i) ==
    IF i >= 0 THEN [ok |-> TRUE, value |-> U(i)] ELSE [ok |-> FALSE, value |-> Zero]

(* ------------------------------ results ------------------------------- *)

Ok(v) == [kind |-> "ok", value |-> v]
Err(kind, detail) == [kind |-> kind, value |-> detail]
Panic(what) == [kind |-> "panic", value |-> what]

(* --------------------------- native strings --------------------------- *)

NUL == 0
EMPTY_STR == << >>
LABEL_STR == <<108, 97, 98, 101, 108>>
WEIGHT_STR == <<119, 101, 105, 103, 104, 116>>

\* CString::new: an interior NUL byte is an error.
\* Faulty variant: accepts every byte string.
CStringNewMut(bytes) == [ok |-> TRUE, value |-> bytes]
CStringNew(bytes) ==
    IF \E i \in 1..Len(bytes) : bytes[i] = NUL
    THEN [ok |-> FALSE, value |-> << >>]
    ELSE [ok |-> TRUE, value |-> bytes]

(* ------------------------------- state -------------------------------- *)

VARIABLES
    native,     \* native layer: handle -> [nrow, ncol, freed, fields]
    scope,      \* the Dataset values alive in the owner's scope
    calls,      \* native calls made by the most recent operation, in order
    faults,     \* misuses of the native layer seen so far
    last,       \* the most recent operation: [op, args, ret]
    constructed,\* number of constructor calls made so far
    frame,      \* data frame handed to from_dataframe: [columns, label_column]
    delegated   \* the arguments from_dataframe hands to from_mat

vars == <<native, scope, calls, faults, last, constructed, frame, delegated>>

NULL == 0

\* The native layer as one value threaded through an operation.
World == [native |-> native, calls |-> << >>, faults |-> faults]

Logged(w, c) == [w EXCEPT !.calls = Append(@, c)]

Live(w, h) == h \in DOMAIN w.native /\ w.native[h].freed = 0

\* A native call on a handle that is not a live allocation.
Checked(w, h) ==
    IF Live(w, h) THEN w ELSE [w EXCEPT !.faults = @ \cup {"use_after_free"}]

(* --------------------- native layer (lightgbm_sys) -------------------- *)

C_API_DTYPE_FLOAT32 == 0
C_API_DTYPE_FLOAT64 == 1

FreshHandle(w) == Cardinality(DOMAIN w.native) + 1

\* Allocates a dataset of nrow x ncol; `ok` is whether the native layer
\* reports success.
LGBM_DatasetCreateFromMat(w, dtype, nrow, ncol, is_row_major, params, reference, ok) ==
    LET h  == FreshHandle(w)
        w1 == Logged(w, [fn |-> "LGBM_DatasetCreateFromMat", handle |-> NULL,
                         args |-> [dtype |-> dtype, nrow |-> nrow, ncol |-> ncol,
                                   is_row_major |-> is_row_major, params |-> params,
                                   reference |-> reference]])
    IN  IF ok
        THEN [w |-> [w1 EXCEPT !.native = @ @@ (h :> [nrow |-> nrow, ncol |-> ncol,
                                                     freed |-> 0, fields |-> {}])],
              status |-> 0, out |-> h]
        ELSE [w |-> w1, status |-> -1, out |-> NULL]

\* Loads a dataset from a file; `ok` is whether the native loader succeeds,
\* nrow and ncol what the file holds.
LGBM_DatasetCreateFromFile(w, filename, params, reference, ok, nrow, ncol) ==
    LET h  == FreshHandle(w)
        w1 == Logged(w, [fn |-> "LGBM_DatasetCreateFromFile", handle |-> NULL,
                         args |-> [filename |-> filename, params |-> params,
                                   reference |-> reference]])
    IN  IF ok
        THEN [w |-> [w1 EXCEPT !.native = @ @@ (h :> [nrow |-> nrow, ncol |-> ncol,
                                                     freed |-> 0,
                                                     fields |-> {LABEL_STR}])],
              status |-> 0, out |-> h]
        ELSE [w |-> w1, status |-> -1, out |-> NULL]

\* Sets a named per-row field; the native layer rejects a length that
\* differs from the dataset's row count.
LGBM_DatasetSetField(w, handle, field_name, len, dtype) ==
    LET w1 == Checked(Logged(w, [fn |-> "LGBM_DatasetSetField", handle |-> handle,
                                 args |-> [field_name |-> field_name, len |-> len,
                                           dtype |-> dtype]]), handle)
    IN  IF Live(w, handle) /\ len = w.native[handle].nrow
        THEN [w |-> [w1 EXCEPT !.native[handle].fields = @ \cup {field_name}],
              status |-> 0, out |-> NULL]
        ELSE [w |-> w1, status |-> -1, out |-> NULL]

LGBM_DatasetGetNumData(w, handle) ==
    LET w1 == Checked(Logged(w, [fn |-> "LGBM_DatasetGetNumData", handle |-> handle,
                                 args |-> << >>]), handle)
    IN  IF Live(w, handle)
        THEN [w |-> w1, status |-> 0, out |-> w.native[handle].nrow]
        ELSE [w |-> w1, status |-> -1, out |-> 0]

LGBM_DatasetGetNumFeature(w, handle) ==
    LET w1 == Checked(Logged(w, [fn |-> "LGBM_DatasetGetNumFeature", handle |-> handle,
                                 args |-> << >>]), handle)
    IN  IF Live(w, handle)
        THEN [w |-> w1, status |-> 0, out |-> w.native[handle].ncol]
        ELSE [w |-> w1, status |-> -1, out |-> 0]

LGBM_DatasetFree(w, handle) ==
    LET w1 == Logged(w, [fn |-> "LGBM_DatasetFree", handle |-> handle, args |-> << >>])
    IN  IF handle \in DOMAIN w.native
        THEN [w |-> [w1 EXCEPT !.native[handle].freed = @ + 1],
              status |-> 0, out |-> NULL]
        ELSE [w |-> [w1 EXCEPT !.faults = @ \cup {"free_unallocated"}],
              status |-> -1, out |-> NULL]

(* ------------------------------ Dataset ------------------------------- *)

\* Dataset::new
new(handle) == [handle |-> handle]

\* impl Drop for Dataset: frees the handle and panics if the call fails.
\* Faulty variant: the handle is never freed.
dropNoFree(w, self) == [w |-> w, ret |-> Ok("unit")]
drop(w, self) ==
    LET r == LGBM_DatasetFree(w, self.handle)
    IN  IF r.status = 0
        THEN [w |-> r.w, ret |-> Ok("unit")]
        ELSE [w |-> r.w, ret |-> Panic("Call to LGBM_DatasetFree should always succeed")]

(* ------------------------- Dataset::from_mat -------------------------- *)

\* `data_length % n_rows` is evaluated with n_rows = 0: the remainder panics.
RemainderByZero(data_length, n_rows) ==
    (data_length # Zero \/ n_rows # Zero) /\ n_rows = Zero

\* The shape check, for a non-zero divisor.
ShapeMismatch(data_length, n_rows) ==
    (data_length # Zero \/ n_rows # Zero) /\ USizeRem(data_length, n_rows) # Zero

\* Faulty variant: the buffer length taken as the column count.
feature_length_mut(data_length, n_rows) ==
    IF data_length = Zero /\ n_rows = Zero THEN Zero ELSE data_length
feature_length(data_length, n_rows) ==
    IF data_length = Zero /\ n_rows = Zero
    THEN Zero
    ELSE USizeDiv(data_length, n_rows)

\* The error return at the `?` after `dataset` was created: the local
\* `dataset` goes out of scope and is dropped.
\* Faulty variant: the handle is not yet owned, so nothing frees it.
ReturnErrLeak(w, dataset, err) == [w |-> w, ret |-> err]
ReturnErrOwning(w, dataset, err) == [w |-> drop(w, dataset).w, ret |-> err]

\* The native part of from_mat: allocation, wrapping, label.
from_mat_native(w, nrow, ncol, label_len, native_ok) ==
    LET params    == CStringNew(EMPTY_STR)
        label_str == CStringNew(LABEL_STR)
    IN
    IF ~params.ok THEN [w |-> w, ret |-> Err("encoding_error", "params")] ELSE
    IF ~label_str.ok THEN [w |-> w, ret |-> Err("encoding_error", "label")] ELSE
    LET reference == NULL
        c == LGBM_DatasetCreateFromMat(w, C_API_DTYPE_FLOAT64, nrow, ncol, 1,
                                       params.value, reference, native_ok)
    IN
    IF c.status # 0
    THEN [w |-> c.w, ret |-> Err("native_failure", "LGBM_DatasetCreateFromMat")]
    ELSE
    LET handle  == c.out
        dataset == new(handle)
        f == LGBM_DatasetSetField(c.w, handle, label_str.value, label_len,
                                  C_API_DTYPE_FLOAT32)
    IN
    IF f.status # 0
    THEN ReturnErrOwning(f.w, dataset, Err("native_failure", "LGBM_DatasetSetField"))
    ELSE [w |-> f.w, ret |-> Ok(dataset)]

from_mat(w, data_length, n_rows, label_len, native_ok) ==
    IF RemainderByZero(data_length, n_rows)
    THEN [w |-> w, ret |-> Panic("remainder with a divisor of zero")]
    ELSE
    IF ShapeMismatch(data_length, n_rows)
    THEN [w |-> w, ret |-> Err("shape_error", n_rows)]
    ELSE
    LET nrow == TryIntoI32(n_rows)
        ncol == TryIntoI32(feature_length(data_length, n_rows))
        llen == TryIntoI32(label_len)
    IN
    IF ~nrow.ok THEN [w |-> w, ret |-> Err("range_error", "rows")] ELSE
    IF ~ncol.ok THEN [w |-> w, ret |-> Err("range_error", "columns")] ELSE
    IF ~llen.ok THEN [w |-> w, ret |-> Err("range_error", "label")] ELSE
    from_mat_native(w, nrow.value, ncol.value, llen.value, native_ok)

(* ------------------------- Dataset::from_file ------------------------- *)

from_file(w, file_path, native_ok, file_rows, file_cols) ==
    LET file_path_str == CStringNew(file_path)
        params        == CStringNew(EMPTY_STR)
    IN
    IF ~file_path_str.ok THEN [w |-> w, ret |-> Err("encoding_error", "file_path")] ELSE
    IF ~params.ok THEN [w |-> w, ret |-> Err("encoding_error", "params")] ELSE
    LET c == LGBM_DatasetCreateFromFile(w, file_path_str.value, params.value, NULL,
                                        native_ok, file_rows, file_cols)
    IN
    IF c.status # 0
    THEN [w |-> c.w, ret |-> Err("native_failure", "LGBM_DatasetCreateFromFile")]
    ELSE [w |-> c.w, ret |-> Ok(new(c.out))]

(* ------------------ n_rows, n_features, set_weights ------------------- *)

n_rows(w, self) ==
    LET g == LGBM_DatasetGetNumData(w, self.handle)
    IN  IF g.status # 0
        THEN [w |-> g.w, ret |-> Err("native_failure", "LGBM_DatasetGetNumData")]
        ELSE LET r == TryIntoUSize(g.out)
             IN  IF r.ok THEN [w |-> g.w, ret |-> Ok(r.value)]
                 ELSE [w |-> g.w, ret |-> Err("negative", "dataset length negative")]

n_features(w, self) ==
    LET g == LGBM_DatasetGetNumFeature(w, self.handle)
    IN  IF g.status # 0
        THEN [w |-> g.w, ret |-> Err("native_failure", "LGBM_DatasetGetNumFeature")]
        ELSE LET r == TryIntoUSize(g.out)
             IN  IF r.ok THEN [w |-> g.w, ret |-> Ok(r.value)]
                 ELSE [w |-> g.w, ret |-> Err("negative", "feature count negative")]

\* The length check of set_weights.
\* Faulty variant: only a slice that is too short is rejected.
WeightsMismatchMut(rows, weights_len) == rows.hi = 0 /\ weights_len.hi = 0
                                         /\ rows.lo > weights_len.lo
WeightsMismatch(rows, weights_len) == rows # weights_len

\* Faulty variant: the weights are written to the label field.
WeightFieldMut == LABEL_STR
WeightField == WEIGHT_STR

\* What set_weights does once the length check has passed.
set_field_weights(w, self, weights_len) ==
    LET field_name == CStringNew(WeightField)
        len        == TryIntoI32(weights_len)
    IN
    IF ~field_name.ok THEN [w |-> w, ret |-> Panic("CString::new unwrap")] ELSE
    IF ~len.ok THEN [w |-> w, ret |-> Err("range_error", "weights")] ELSE
    LET f == LGBM_DatasetSetField(w, self.handle, field_name.value, len.value,
                                  C_API_DTYPE_FLOAT32)
    IN  IF f.status # 0
        THEN [w |-> f.w, ret |-> Err("native_failure", "LGBM_DatasetSetField")]
        ELSE [w |-> f.w, ret |-> Ok("unit")]

\* Faulty variant: the Dataset is dropped when the length is rejected.
set_weights_consuming(w, self, weights_len) ==
    LET r == n_rows(w, self)
    IN  IF r.ret.kind # "ok" THEN r
        ELSE IF WeightsMismatch(r.ret.value, weights_len)
        THEN ReturnErrOwning(r.w, self,
                             Err("length_mismatch", <<weights_len, r.ret.value>>))
        ELSE set_field_weights(r.w, self, weights_len)
set_weights(w, self, weights_len) ==
    LET r == n_rows(w, self)
    IN  IF r.ret.kind # "ok" THEN r
        ELSE IF WeightsMismatch(r.ret.value, weights_len)
        THEN [w |-> r.w, ret |-> Err("length_mismatch", <<weights_len, r.ret.value>>)]
        ELSE set_field_weights(r.w, self, weights_len)

(* ----------------------- Dataset::from_dataframe ---------------------- *)

\* A missing (null) value of a series.
Missing == -1

\* Series::cast::<Float32Type>: an f64 keeps one bit more than an f32 here,
\* and the cast rounds to the nearest representable value, ties to even.
CastF32(v) ==
    IF v = Missing \/ v % 2 = 0 THEN v
    ELSE IF ((v + 1) \div 2) % 2 = 0 THEN v + 1 ELSE v - 1

\* Series::cast::<Float64Type> of an f64 series.
CastF64(v) == v

null_count(values) == Cardinality({i \in 1..Len(values) : values[i] = Missing})

\* DataFrame::shape: (height, width).
shape(df) ==
    <<IF Len(df.columns) = 0 THEN 0 ELSE Len(df.columns[1].values), Len(df.columns)>>

\* DataFrame::select_series by name: the matching column indices.
select_series(df, name) == {j \in 1..Len(df.columns) : df.columns[j].name = name}

\* DataFrame::drop_in_place: the columns left, in their order.
drop_in_place(df, j) ==
    [i \in 1..(Len(df.columns) - 1) |->
        IF i < j THEN df.columns[i] ELSE df.columns[i + 1]]

\* The call `Self::from_mat(feature_values, label_values)` is recorded as
\* the list of arguments it passes; feature_values holds one vector per row.
from_dataframe(dataframe, label_column) ==
    LET m   == shape(dataframe)[1]
        sel == select_series(dataframe, label_column)
    IN
    IF sel = {} THEN [ret |-> Err("frame_error", "column not found"), call |-> << >>]
    ELSE
    LET j            == CHOOSE x \in sel : TRUE
        label_series == [i \in 1..m |-> CastF32(dataframe.columns[j].values[i])]
    IN
    IF null_count(label_series) # 0
    THEN [ret |-> Panic("nulls when creating the label array"), call |-> << >>]
    ELSE
    LET rest           == drop_in_place(dataframe, j)
        label_values   == label_series
        feature_values == [row \in 1..m |->
                              [c \in 1..Len(rest) |-> CastF64(rest[c].values[row])]]
    IN
    IF \E c \in 1..Len(rest) : null_count(rest[c].values) # 0
    THEN [ret |-> Panic("nulls when creating the features array"), call |-> << >>]
    ELSE [ret |-> [kind |-> "delegated", value |-> "from_mat"],
          call |-> <<feature_values, label_values>>]

(* ------------------------------- inputs ------------------------------- *)

OutOfRange == {Big(n) : n \in 0..MaxBig}
Boundary == {U(I32_MAX)}
DataLengths == Boundary \cup {U(n) : n \in 0..MaxLen} \cup OutOfRange
RowCounts == Boundary \cup {U(n) : n \in 0..MaxRows} \cup OutOfRange
LabelLengths == Boundary \cup {U(n) : n \in 0..MaxRows} \cup OutOfRange
WeightLengths == Boundary \cup {U(n) : n \in 0..MaxLen} \cup OutOfRange

SeqsUpTo(S, n) == UNION {[1..k -> S] : k \in 0..n}

Paths == SeqsUpTo({NUL, 97}, MaxPathLen)

ColumnNames == <<"feature_1", "feature_2", "label", "feature_3", "feature_4">>

Frames ==
    UNION {
      { [columns |-> [j \in 1..k |-> [name |-> ColumnNames[j], values |-> vals[j]]],
         label_column |-> lc] :
            vals \in [1..k -> [1..m -> {0, 3, Missing}]],
            lc \in {ColumnNames[j] : j \in 1..k} \cup {"target"} } :
        m \in 0..MaxFrameRows, k \in 1..MaxFrameCols }

NoFrame == [columns |-> << >>, label_column |-> "label"]

(* ------------------------------ actions ------------------------------- *)

\* After construction: nothing allocated, nothing in scope.
Init ==
    /\ native = << >>
    /\ scope = {}
    /\ calls = << >>
    /\ faults = {}
    /\ last = [op |-> "init", args |-> << >>, ret |-> Ok("unit")]
    /\ constructed = 0
    /\ frame = NoFrame
    /\ delegated = << >>

Returned(r) == IF r.ret.kind = "ok" THEN {r.ret.value} ELSE {}

FromMat ==
    /\ constructed < MaxConstructions
    /\ constructed' = constructed + 1
    /\ \E data_length \in DataLengths, rows \in RowCounts, label_len \in LabelLengths,
          native_ok \in BOOLEAN :
         LET r == from_mat(World, data_length, rows, label_len, native_ok)
         IN  /\ native' = r.w.native
             /\ calls' = r.w.calls
             /\ faults' = r.w.faults
             /\ scope' = scope \cup Returned(r)
             /\ last' = [op |-> "from_mat",
                         args |-> [data_length |-> data_length, n_rows |-> rows,
                                   label_len |-> label_len, native_ok |-> native_ok],
                         ret |-> r.ret]
    /\ UNCHANGED <<frame, delegated>>

FromFile ==
    /\ constructed < MaxConstructions
    /\ constructed' = constructed + 1
    /\ \E file_path \in Paths, native_ok \in BOOLEAN,
          file_rows \in 0..MaxFileDim, file_cols \in 0..MaxFileDim :
         LET r == from_file(World, file_path, native_ok, file_rows, file_cols)
         IN  /\ native' = r.w.native
             /\ calls' = r.w.calls
             /\ faults' = r.w.faults
             /\ scope' = scope \cup Returned(r)
             /\ last' = [op |-> "from_file",
                         args |-> [file_path |-> file_path, native_ok |-> native_ok],
                         ret |-> r.ret]
    /\ UNCHANGED <<frame, delegated>>

NRows ==
    /\ \E self \in scope :
         LET r == n_rows(World, self)
         IN  /\ native' = r.w.native
             /\ calls' = r.w.calls
             /\ faults' = r.w.faults
             /\ last' = [op |-> "n_rows", args |-> [self |-> self], ret |-> r.ret]
    /\ UNCHANGED <<scope, constructed, frame, delegated>>

NFeatures ==
    /\ \E self \in scope :
         LET r == n_features(World, self)
         IN  /\ native' = r.w.native
             /\ calls' = r.w.calls
             /\ faults' = r.w.faults
             /\ last' = [op |-> "n_features", args |-> [self |-> self], ret |-> r.ret]
    /\ UNCHANGED <<scope, constructed, frame, delegated>>

SetWeights ==
    /\ \E self \in scope, weights_len \in WeightLengths :
         LET r == set_weights(World, self, weights_len)
         IN  /\ native' = r.w.native
             /\ calls' = r.w.calls
             /\ faults' = r.w.faults
             /\ last' = [op |-> "set_weights",
                         args |-> [self |-> self, weights_len |-> weights_len],
                         ret |-> r.ret]
    /\ UNCHANGED <<scope, constructed, frame, delegated>>

\* The owner's scope of a Dataset ends: the value is dropped.
ScopeEnd ==
    /\ \E self \in scope :
         LET r == drop(World, self)
         IN  /\ native' = r.w.native
             /\ calls' = r.w.calls
             /\ faults' = r.w.faults
             /\ scope' = scope \ {self}
             /\ last' = [op |-> "drop", args |-> [self |-> self], ret |-> r.ret]
    /\ UNCHANGED <<constructed, frame, delegated>>

Next == FromMat \/ FromFile \/ NRows \/ NFeatures \/ SetWeights \/ ScopeEnd

Spec == Init /\ [][Next]_vars

\* from_dataframe on every frame within the bounds.
InitFrame ==
    /\ native = << >>
    /\ scope = {}
    /\ calls = << >>
    /\ faults = {}
    /\ last = [op |-> "init", args |-> << >>, ret |-> Ok("unit")]
    /\ constructed = 0
    /\ frame \in Frames
    /\ delegated = << >>

FromDataframe ==
    /\ last.op = "init"
    /\ LET r == from_dataframe(frame, frame.label_column)
       IN  /\ delegated' = r.call
           /\ last' = [op |-> "from_dataframe", args |-> << >>, ret |-> r.ret]
    /\ UNCHANGED <<native, scope, calls, faults, constructed, frame>>

NextFrame == FromDataframe

SpecFrame == InitFrame /\ [][NextFrame]_vars

(* ------------------------------ properties ---------------------------- *)

\* The result `ret` is of kind `kind` and carries `value`.
Is(ret, kind, value) == ret.kind = kind /\ ret.value = value

Fns == [i \in 1..Len(calls) |-> calls[i].fn]
CallsTo(fn) == {i \in 1..Len(calls) : calls[i].fn = fn}
NowWorld == [native |-> native, calls |-> << >>, faults |-> faults]
NextWorld == [native |-> native', calls |-> << >>, faults |-> faults']

\* L is not a whole multiple of R (nothing but 0 is a multiple of 0).
NotDivisible(L, R) == IF R = Zero THEN L # Zero ELSE USizeRem(L, R) # Zero

\* C1: every handle a native allocation returned is freed exactly once when
\* its owner is gone (scope end, or the early error return of from_mat) and
\* not at all while a Dataset in scope owns it; no native call is made on a
\* freed handle and no handle is freed that no allocation returned.
C1_FreedExactlyOnce ==
    /\ faults = {}
    /\ \A ds \in scope : ds.handle \in DOMAIN native
    /\ \A h \in DOMAIN native :
          native[h].freed = (IF new(h) \in scope THEN 0 ELSE 1)

C1_Witness ==
    /\ last.op = "drop"
    /\ \E h \in DOMAIN native : native[h].freed = 1 /\ new(h) \notin scope

\* C2: from_mat with (L # 0 or R # 0) and L not divisible by R, R = 0
\* included, returns the shape error naming R and makes no native call.
C2_ShapeErrorForEveryPair ==
    (/\ last.op = "from_mat"
     /\ (last.args.data_length # Zero \/ last.args.n_rows # Zero)
     /\ NotDivisible(last.args.data_length, last.args.n_rows))
    => (Is(last.ret, "shape_error", last.args.n_rows) /\ calls = << >>)

\* The rows the dataset of the last set_weights call has.
RowsOfSelf == U(native[last.args.self.handle].nrow)

\* C3 as stated: a set_weights call with a slice of the wrong length returns
\* the length-mismatch error without any native call, getter included.
C3_NoNativeCallAtAll ==
    (last.op = "set_weights" /\ last.args.weights_len # RowsOfSelf)
    => (last.ret.kind = "length_mismatch" /\ calls = << >>)

\* C3 amended: a set_weights call with a slice of the wrong length returns
\* the length-mismatch error having made exactly one native call, the
\* row-count getter, and no set-named-field call.
C3_OnlyTheRowCountQuery ==
    (last.op = "set_weights" /\ last.args.weights_len # RowsOfSelf)
    => (/\ Is(last.ret, "length_mismatch", <<last.args.weights_len, RowsOfSelf>>)
        /\ Fns = <<"LGBM_DatasetGetNumData">>
        /\ calls[1].handle = last.args.self.handle)

C3_Witness ==
    /\ last.op = "set_weights"
    /\ last.ret.kind = "length_mismatch"
    /\ last.args.weights_len = U(RowsOfSelf.lo + 1)

\* C4: set_weights with a slice of length R succeeds with exactly one
\* set-named-field call, for field "weight" and length R; with any other
\* length it fails with the length-mismatch error and no set-named-field call.
C4_WeightsLengthDecides ==
    last.op = "set_weights" =>
        IF last.args.weights_len = RowsOfSelf
        THEN /\ Is(last.ret, "ok", "unit")
             /\ \E i \in 1..Len(calls) :
                   /\ CallsTo("LGBM_DatasetSetField") = {i}
                   /\ calls[i].handle = last.args.self.handle
                   /\ calls[i].args.field_name = WEIGHT_STR
                   /\ calls[i].args.len = RowsOfSelf.lo
        ELSE /\ last.ret.kind = "length_mismatch"
             /\ CallsTo("LGBM_DatasetSetField") = {}

C4_Witness ==
    /\ last.op = "set_weights"
    /\ last.ret.kind = "ok"
    /\ RowsOfSelf = U(2)
    /\ WEIGHT_STR \in native[last.args.self.handle].fields

\* C5: when from_mat's allocation succeeds and the label is then rejected
\* (its length differs from the row count), from_mat returns the native
\* failure, no Dataset, and the handle has been freed exactly once: the
\* native calls are allocation, set-field, free, all on that handle.
C5_LabelFailureFreesHandle ==
    (/\ last.op = "from_mat"
     /\ CallsTo("LGBM_DatasetCreateFromMat") # {}
     /\ last.args.native_ok
     /\ last.args.label_len # last.args.n_rows)
    => (/\ Is(last.ret, "native_failure", "LGBM_DatasetSetField")
        /\ Fns = <<"LGBM_DatasetCreateFromMat", "LGBM_DatasetSetField",
                   "LGBM_DatasetFree">>
        /\ calls[2].handle = calls[3].handle
        /\ calls[3].handle \in DOMAIN native
        /\ native[calls[3].handle].freed = 1
        /\ new(calls[3].handle) \notin scope)

C5_Witness ==
    /\ last.op = "from_mat"
    /\ Is(last.ret, "native_failure", "LGBM_DatasetSetField")
    /\ Len(calls) = 3

\* R * C = N for in-range R and N.
IsProduct(R, C, N) ==
    /\ R.hi = 0 /\ N.hi = 0
    /\ IF C = 0 THEN N.lo = 0 ELSE N.lo % C = 0 /\ N.lo \div C = R.lo

\* from_mat returned a Dataset that reports R rows and C columns.
Reports(R, C) ==
    /\ last.ret.kind = "ok"
    /\ last.ret.value \in scope
    /\ Is(n_rows(NowWorld, last.ret.value).ret, "ok", R)
    /\ Is(n_features(NowWorld, last.ret.value).ret, "ok", U(C))

MatBuilt(C) ==
    /\ last.op = "from_mat"
    /\ last.args.native_ok
    /\ IsProduct(last.args.n_rows, C, last.args.data_length)
    /\ last.args.label_len = last.args.n_rows

\* C6 as stated: for all R and C with R * C = N, from_mat on a buffer of
\* length N with row count R and a label of length R yields a Dataset
\* that reports R rows and C columns.
C6_ReportsRowsAndColumns ==
    \A C \in 0..(MaxLen + 1) : MatBuilt(C) => Reports(last.args.n_rows, C)

\* C6 amended: the same for every R >= 1; with R = 0 the buffer is empty
\* and the Dataset reports 0 rows and 0 columns, whatever C is.
C6_ReportsRowsAndColumnsNonEmpty ==
    \A C \in 0..(MaxLen + 1) :
        MatBuilt(C) =>
            IF last.args.n_rows = Zero
            THEN Reports(Zero, 0)
            ELSE Reports(last.args.n_rows, C)

C6_Witness ==
    /\ MatBuilt(2)
    /\ last.args.n_rows = U(2)
    /\ Reports(U(2), 2)

\* The frame's label column exists and no value of the frame is missing.
LabelColumns == select_series(frame, frame.label_column)
Complete ==
    /\ LabelColumns # {}
    /\ \A j \in 1..Len(frame.columns) : null_count(frame.columns[j].values) = 0

\* The feature columns, in the frame's order, the label column removed.
FeatureColumns ==
    LET j == CHOOSE x \in LabelColumns : TRUE
    IN  drop_in_place(frame, j)

\* The flat row-major buffer of the feature columns: the slot of row i and
\* feature column c holds that column's value at row i.
FlatBuffer ==
    LET m == shape(frame)[1]
        k == Len(FeatureColumns)
    IN  [s \in 1..(m * k) |->
            FeatureColumns[((s - 1) % k) + 1].values[((s - 1) \div k) + 1]]

LabelValues ==
    LET j == CHOOSE x \in LabelColumns : TRUE
    IN  frame.columns[j].values

\* C7: from_dataframe on a frame without missing values hands from_mat
\* three arguments: the flat row-major buffer of the m * k feature values,
\* the row count m, and the label column's values in row order.
C7_DelegatesFlatBufferRowsLabel ==
    (last.op = "from_dataframe" /\ Complete)
    => (/\ last.ret.kind = "delegated"
        /\ Len(delegated) = 3
        /\ delegated[1] = FlatBuffer
        /\ delegated[2] = shape(frame)[1]
        /\ delegated[3] = LabelValues)

\* C8: a set_weights call, successful or not, leaves every Dataset in scope
\* in scope, owning the same handle, not freed, and answering n_rows() and
\* n_features() as before the call.
C8_SetWeightsKeepsCounts ==
    [][ last'.op = "set_weights" =>
            \A ds \in scope :
                /\ ds \in scope'
                /\ ds.handle \in DOMAIN native'
                /\ native'[ds.handle].freed = 0
                /\ n_rows(NextWorld, ds).ret = n_rows(NowWorld, ds).ret
                /\ n_features(NextWorld, ds).ret = n_features(NowWorld, ds).ret
      ]_vars

C8_Witness ==
    /\ last.op = "set_weights"
    /\ last.args.self \in scope
    /\ Is(n_rows(NowWorld, last.args.self).ret, "ok", U(2))
    /\ Is(n_features(NowWorld, last.args.self).ret, "ok", U(2))

InRange(u) == u.hi = 0

\* C9: from_mat checks, in this order, divisibility, the row count's range,
\* the column count's range and the label length's range, returns the error
\* of the first check that fails, and has made no native call by then.
C9_ValidationOrder ==
    last.op = "from_mat" =>
        LET L == last.args.data_length
            R == last.args.n_rows
            B == last.args.label_len
        IN
        IF (L # Zero \/ R # Zero) /\ NotDivisible(L, R)
        THEN last.ret.kind = "shape_error" /\ calls = << >>
        ELSE IF ~InRange(R)
        THEN Is(last.ret, "range_error", "rows") /\ calls = << >>
        ELSE IF ~InRange(IF R = Zero THEN Zero ELSE USizeDiv(L, R))
        THEN Is(last.ret, "range_error", "columns") /\ calls = << >>
        ELSE IF ~InRange(B)
        THEN Is(last.ret, "range_error", "label") /\ calls = << >>
        ELSE last.ret.kind \notin {"shape_error", "range_error"}

\* C10: from_file with a path holding a NUL byte returns the encoding error
\* without a native call; otherwise it makes exactly one native call, the
\* create-from-file call with empty parameters and no reference, and returns
\* a Dataset owning the returned handle exactly when that call succeeds.
C10_FromFile ==
    last.op = "from_file" =>
        IF \E i \in 1..Len(last.args.file_path) : last.args.file_path[i] = NUL
        THEN Is(last.ret, "encoding_error", "file_path") /\ calls = << >>
        ELSE /\ Fns = <<"LGBM_DatasetCreateFromFile">>
             /\ calls[1].args = [filename |-> last.args.file_path,
                                 params |-> EMPTY_STR, reference |-> NULL]
             /\ last.ret.kind = "ok" <=> last.args.native_ok
             /\ last.ret.kind = "ok" =>
                    /\ last.ret.value \in scope
                    /\ Live(NowWorld, last.ret.value.handle)
                    /\ last.ret.value.handle = Cardinality(DOMAIN native)

C10_Witness ==
    /\ last.op = "from_file"
    /\ last.ret.kind = "ok"
    /\ last.args.file_path = <<97>>
    /\ calls[1].fn = "LGBM_DatasetCreateFromFile"

====
